---- MODULE Spec2Model ----
(***************************************************************************)
(* State-machine model of src/lib/selector/fast-auth-wallet.ts: the        *)
(* FastAuthWallet behaviour object (signIn, signOut, getAccounts,          *)
(* verifyOwner, signAndSendTransaction, signAndSendTransactions) and the   *)
(* transaction assembler transformTransactions.                            *)
(*                                                                         *)
(* Every `await` of the source is a suspension point: the part of a        *)
(* handler between two awaits is one action.  Optional values (null /      *)
(* undefined in the source) are sequences of length 0 or 1.                *)
(***************************************************************************)
EXTENDS Integers, Sequences, FiniteSets, TLC

(* ------------------------------ bounds -------------------------------- *)

\* longest batch handed to signAndSendTransactions
MaxBatch == 3
\* transactions handed to transformTransactions, over all its invocations
MaxTxs == 3
\* number of public-operation calls the call sites make in one behaviour
MaxCalls == 2
\* highest on-chain access-key nonce the ledger reaches
MaxNonce == 1
\* highest final block height the ledger reaches
MaxBlock == 1

(* --------------------------- fixed universes -------------------------- *)

\* independent call sites of the wallet object
Callers == {"c1", "c2"}
\* independent invocations of transformTransactions, named in the order they are made
Invocations == {"t1", "t2"}
Earlier(v) == IF v = "t2" THEN {"t1"} ELSE {}
Accounts == {"alice.near", "carol.near"}

\* metadata.name, set by setupFastAuthWallet
MetadataName == "FastAuthWallet"
\* the relayerUrl the module was set up with
RelayerUrl == "https://relayer.example"
\* options.network.networkId
NetworkId == "testnet"
\* blockHeightTtl of every signed delegate
BlockHeightTtl == 60

T1 == [receiverId |-> "bob.near", actions |-> <<"Transfer">>]
T2 == [receiverId |-> "app.near", actions |-> <<"FunctionCall", "Transfer">>]
Transactions == {T1, T2}
Receivers == {t.receiverId : t \in Transactions}

\* the transaction at position k of the batches: T1, T2, T1, ...
TxAt(k) == IF k % 2 = 1 THEN T1 ELSE T2

\* the batches a call site may pass: every length up to MaxBatch
Batches == {[k \in 1..n |-> TxAt(k)] : n \in 0..MaxBatch}

\* the batches transformTransactions may be given
AssemblerBatches == {[k \in 1..n |-> TxAt(k)] : n \in 0..MaxTxs}

\* the sign-in requests a call site may pass
SignInParams ==
    { [contractId |-> "app.near", methodNames |-> <<"set">>, successUrl |-> "/ok",
       failureUrl |-> "/fail", email |-> "a@example.org", accountId |-> "alice.near",
       isRecovery |-> FALSE],
      [contractId |-> "app.near", methodNames |-> <<>>, successUrl |-> "/ok",
       failureUrl |-> "/fail", email |-> "c@example.org", accountId |-> "carol.near",
       isRecovery |-> TRUE] }

VARIABLES
    setup,          \* setupFastAuthWallet: its configuration and how far the set-up got
    authAccountId,  \* _state.wallet: the signed-in account id, "" when signed out
    keyStore,       \* _state.keyStore: the accounts that have key material stored
    calls,          \* per call site: the public operation in progress or last finished
    callsLeft,      \* calls the call sites may still start
    tt,             \* per invocation: the transformTransactions call in progress
    chainNonce,     \* ledger: nonce of the account's access key
    finalBlock,     \* ledger: height of the latest final block
    keyScope        \* ledger: receivers the access key is valid for

walletVars == <<authAccountId, keyStore>>
chainVars == <<chainNonce, finalBlock, keyScope>>
vars == <<setup, authAccountId, keyStore, calls, callsLeft, tt, chainNonce, finalBlock, keyScope>>

(* -------------------------------- set-up ------------------------------ *)

\* network ids the host may configure, and the walletUrl parameter ("" = not given)
Networks == {"mainnet", "testnet", "localnet"}
WalletUrls == {"", "https://wallet.example"}

\* a slip: an unrecognised network falls back to the default URL
ResolveWalletUrlDefaults(networkId, walletUrl) ==
    IF walletUrl # "" THEN [ok |-> TRUE, url |-> walletUrl, error |-> ""]
    ELSE [ok |-> TRUE, url |-> "http://localhost:3000", error |-> ""]

\* resolveWalletUrl(network, walletUrl)
ResolveWalletUrl(networkId, walletUrl) ==
    IF walletUrl # "" THEN [ok |-> TRUE, url |-> walletUrl, error |-> ""]
    ELSE CASE networkId = "mainnet" -> [ok |-> TRUE, url |-> "http://localhost:3000", error |-> ""]
           [] networkId = "testnet" -> [ok |-> TRUE, url |-> "http://localhost:3000", error |-> ""]
           [] OTHER -> [ok |-> FALSE, url |-> "", error |-> "Invalid wallet url"]

\* the set-up before the module factory has run
NewSetup(networkId, walletUrl) ==
    [pc |-> "start", networkId |-> networkId, walletUrl |-> walletUrl,
     metadataUrl |-> "", paramsUrl |-> "", error |-> ""]

\* the set-up of a wallet whose _state exists
ReadySetup ==
    [pc |-> "ready", networkId |-> NetworkId, walletUrl |-> "",
     metadataUrl |-> "http://localhost:3000", paramsUrl |-> "http://localhost:3000", error |-> ""]

\* the module factory runs: the descriptor's metadata.walletUrl is resolved
ModuleFactory ==
    /\ setup.pc = "start"
    /\ LET r == ResolveWalletUrl(setup.networkId, setup.walletUrl) IN
         setup' = IF r.ok THEN [setup EXCEPT !.pc = "module", !.metadataUrl = r.url]
                  ELSE [setup EXCEPT !.pc = "threw", !.error = r.error]
    /\ UNCHANGED <<authAccountId, keyStore, calls, callsLeft, tt, chainNonce, finalBlock, keyScope>>

\* init(options): params.walletUrl is resolved, then FastAuthWallet calls
\* setupWalletState, which runs up to await nearAPI.connect(...)
ModuleInit ==
    /\ setup.pc = "module"
    /\ LET r == ResolveWalletUrl(setup.networkId, setup.walletUrl) IN
         setup' = IF r.ok THEN [setup EXCEPT !.pc = "connecting", !.paramsUrl = r.url]
                  ELSE [setup EXCEPT !.pc = "threw", !.error = r.error]
    /\ UNCHANGED <<authAccountId, keyStore, calls, callsLeft, tt, chainNonce, finalBlock, keyScope>>

\* nearAPI.connect resolves: the wallet connection is made and _state exists
ConnectReturns ==
    /\ setup.pc = "connecting"
    /\ setup' = [setup EXCEPT !.pc = "ready"]
    /\ UNCHANGED <<authAccountId, keyStore, calls, callsLeft, tt, chainNonce, finalBlock, keyScope>>

\* nearAPI.connect rejects
ConnectFails ==
    /\ setup.pc = "connecting"
    /\ setup' = [setup EXCEPT !.pc = "threw", !.error = "connect failed"]
    /\ UNCHANGED <<authAccountId, keyStore, calls, callsLeft, tt, chainNonce, finalBlock, keyScope>>

(* ------------------- the wallet connection (collaborator) ------------- *)

\* _state.wallet.getAccountId()
WalletGetAccountId == authAccountId

\* _state.wallet.account(): the connected account, none when signed out
WalletAccount == IF authAccountId = "" THEN <<>> ELSE <<[accountId |-> authAccountId]>>

\* _state.wallet.isSignedIn()
WalletIsSignedIn == authAccountId # ""

\* _state.wallet.signOut(): forgets the session and clears its key material
WalletSignOut ==
    /\ authAccountId' = ""
    /\ keyStore' = keyStore \ {authAccountId}

\* _state.wallet.requestSignIn(...) completing for account a: the session is
\* established and the key material persisted in the key store
RequestSignInStores(a) ==
    /\ authAccountId' = a
    /\ keyStore' = keyStore \cup {a}

\* key material of an account
KeyPairOf(a) == [keyType |-> "ed25519", data |-> a]

\* account.connection.signer.getPublicKey(accountId, networkId): none when the
\* key store holds no key for the account
SignerGetPublicKey(accountId, networkId) ==
    IF accountId \in keyStore THEN <<KeyPairOf(accountId)>> ELSE <<>>

\* publicKey.toString()
PublicKeyToString(pk) == pk.keyType \o ":" \o pk.data

(* ------------------------------ call frames --------------------------- *)

NoParams == [contractId |-> "", methodNames |-> <<>>, successUrl |-> "", failureUrl |-> "",
             email |-> "", accountId |-> "", isRecovery |-> FALSE]

\* a call site that has not called anything yet
IdleCall ==
    [ op |-> "none", pc |-> "idle",
      id |-> 0,                 \* which call this is: the calls left when it was made
      params |-> NoParams,      \* signIn's argument
      txs |-> <<>>,             \* the transactions of signAndSendTransaction(s)
      gaAccountId |-> "",       \* getAccounts: accountId
      gaAccount |-> <<>>,       \* getAccounts: account
      phase |-> 0,              \* signIn: 1 = first getAccounts, 2 = the one after the handshake
      hs |-> 0,                 \* requestSignIn invocations made by this call
      hsArgs |-> NoParams,      \* what requestSignIn was invoked with
      wso |-> FALSE,            \* this call invoked _state.wallet.signOut()
      st |-> <<>>,              \* per transaction: pending, building, posting, relayed, failed
      acct |-> <<>>,            \* per transaction: the account() resolved for it
      builds |-> 0,             \* signedDelegate invocations made by this call
      resp |-> "none",          \* how fetch settled last: ok, rejected, error
      posts |-> <<>>,           \* the POSTs this call issued, in order
      result |-> <<>>,          \* returned account list
      error |-> "" ]            \* message of the thrown error

Finished(call) == call.pc \in {"idle", "returned", "threw"}

CanCall(c) == setup.pc = "ready" /\ Finished(calls[c]) /\ callsLeft > 0

Begin(c, frame) ==
    /\ calls' = [calls EXCEPT ![c] = [frame EXCEPT !.id = callsLeft]]
    /\ callsLeft' = callsLeft - 1

Return(call, value) == [call EXCEPT !.pc = "returned", !.result = value]
Throw(call, message) == [call EXCEPT !.pc = "threw", !.error = message]

(* ------------------------------ getAccounts --------------------------- *)

\* the guard of getAccounts: if (!accountId || !account) return []
NoSession(accountId, account) == accountId = "" \/ account = <<>>

\* a slip: the public key is not put into the record
AccountRecordNoKey(accountId, publicKey) == [accountId |-> accountId, publicKey |-> ""]

\* the record getAccounts returns for a session
AccountRecord(accountId, publicKey) ==
    [accountId |-> accountId,
     publicKey |-> IF publicKey # <<>> THEN PublicKeyToString(publicKey[1]) ELSE ""]

\* getAccounts up to its await: reads accountId and account
GetAccountsEnter(call) ==
    [call EXCEPT !.gaAccountId = WalletGetAccountId, !.gaAccount = WalletAccount]

\* a variant: no record when the signer has no key for the account
GetAccountsValueEmptyOnNoKey(call) ==
    IF NoSession(call.gaAccountId, call.gaAccount)
       \/ SignerGetPublicKey(call.gaAccount[1].accountId, NetworkId) = <<>>
    THEN <<>>
    ELSE <<AccountRecord(call.gaAccountId,
                         SignerGetPublicKey(call.gaAccount[1].accountId, NetworkId))>>

\* getAccounts from its await on: the value it returns
GetAccountsValue(call) ==
    IF NoSession(call.gaAccountId, call.gaAccount)
    THEN <<>>
    ELSE <<AccountRecord(call.gaAccountId,
                         SignerGetPublicKey(call.gaAccount[1].accountId, NetworkId))>>

\* public getAccounts(): called
GetAccountsCall(c) ==
    /\ CanCall(c)
    /\ Begin(c, GetAccountsEnter([IdleCall EXCEPT !.op = "getAccounts", !.pc = "accounts"]))
    /\ UNCHANGED <<setup, walletVars, tt, chainVars>>

\* public getAccounts(): the awaited value arrives and is returned
GetAccountsReturn(c) ==
    /\ calls[c].op = "getAccounts" /\ calls[c].pc = "accounts"
    /\ calls' = [calls EXCEPT ![c] = Return(@, GetAccountsValue(@))]
    /\ UNCHANGED <<setup, walletVars, callsLeft, tt, chainVars>>

(* -------------------------------- signIn ------------------------------ *)

\* a slip: the test of the existing accounts is dropped
ShortCircuitNever(existingAccounts) == FALSE

\* signIn's test of the existing accounts: if (existingAccounts.length)
ShortCircuit(existingAccounts) == Len(existingAccounts) > 0

\* signIn(params): called; runs into the first getAccounts
SignInCall(c, p) ==
    /\ CanCall(c)
    /\ Begin(c, GetAccountsEnter([IdleCall EXCEPT !.op = "signIn", !.pc = "accounts",
                                                  !.params = p, !.phase = 1]))
    /\ UNCHANGED <<setup, walletVars, tt, chainVars>>

\* signIn: existingAccounts arrive; return them or start the handshake
SignInExisting(c) ==
    /\ calls[c].op = "signIn" /\ calls[c].pc = "accounts" /\ calls[c].phase = 1
    /\ LET existingAccounts == GetAccountsValue(calls[c])
       IN  calls' = [calls EXCEPT ![c] =
                IF ShortCircuit(existingAccounts)
                THEN Return(@, existingAccounts)
                ELSE [@ EXCEPT !.pc = "handshake", !.hs = @ + 1, !.hsArgs = calls[c].params]]
    /\ UNCHANGED <<setup, walletVars, callsLeft, tt, chainVars>>

\* requestSignIn completes having stored the key material of account a;
\* signIn goes on into the second getAccounts
HandshakeSucceeds(c, a) ==
    /\ calls[c].op = "signIn" /\ calls[c].pc = "handshake"
    /\ RequestSignInStores(a)
    /\ calls' = [calls EXCEPT ![c] =
            [@ EXCEPT !.pc = "accounts", !.phase = 2, !.gaAccountId = a,
                      !.gaAccount = <<[accountId |-> a]>>]]
    /\ UNCHANGED <<setup, callsLeft, tt, chainVars>>

\* requestSignIn completes without a session (the user closed the flow);
\* signIn goes on into the second getAccounts
HandshakeAbandoned(c) ==
    /\ calls[c].op = "signIn" /\ calls[c].pc = "handshake"
    /\ calls' = [calls EXCEPT ![c] = GetAccountsEnter([@ EXCEPT !.pc = "accounts", !.phase = 2])]
    /\ UNCHANGED <<setup, walletVars, callsLeft, tt, chainVars>>

\* requestSignIn rejects; signIn rethrows
HandshakeFails(c) ==
    /\ calls[c].op = "signIn" /\ calls[c].pc = "handshake"
    /\ calls' = [calls EXCEPT ![c] = Throw(@, "requestSignIn failed")]
    /\ UNCHANGED <<setup, walletVars, callsLeft, tt, chainVars>>

\* a slip: signIn returns the list it read before the handshake
SignInReturnStale(c) ==
    /\ calls[c].op = "signIn" /\ calls[c].pc = "accounts" /\ calls[c].phase = 2
    /\ calls' = [calls EXCEPT ![c] = Return(@, <<>>)]
    /\ UNCHANGED <<setup, walletVars, callsLeft, tt, chainVars>>

\* signIn: return getAccounts()
SignInReturn(c) ==
    /\ calls[c].op = "signIn" /\ calls[c].pc = "accounts" /\ calls[c].phase = 2
    /\ calls' = [calls EXCEPT ![c] = Return(@, GetAccountsValue(@))]
    /\ UNCHANGED <<setup, walletVars, callsLeft, tt, chainVars>>

(* -------------------------------- signOut ----------------------------- *)

\* a slip: signOut without its guard
SignOutGuardAlways == TRUE

\* signOut's guard: if (_state.wallet.isSignedIn())
SignOutGuard == WalletIsSignedIn

\* signOut(): no await, one step
SignOut(c) ==
    /\ CanCall(c)
    /\ IF SignOutGuard
       THEN /\ WalletSignOut
            /\ Begin(c, Return([IdleCall EXCEPT !.op = "signOut", !.wso = TRUE], <<>>))
       ELSE /\ UNCHANGED walletVars
            /\ Begin(c, Return([IdleCall EXCEPT !.op = "signOut"], <<>>))
    /\ UNCHANGED <<setup, tt, chainVars>>

(* ------------------------------ verifyOwner --------------------------- *)

\* a slip: verifyOwner returns instead of throwing
VerifyOwnerReturns(call) == Return(call, <<>>)

\* what verifyOwner does: throw new Error(`Method not supported by ${metadata.name}`)
VerifyOwnerOutcome(call) == Throw(call, "Method not supported by " \o MetadataName)

\* verifyOwner(): no await, one step
VerifyOwner(c) ==
    /\ CanCall(c)
    /\ Begin(c, VerifyOwnerOutcome([IdleCall EXCEPT !.op = "verifyOwner"]))
    /\ UNCHANGED <<setup, walletVars, tt, chainVars>>

(* -------------------------- signAndSendTransaction -------------------- *)

\* createAction(action): the selector's action as a near-api-js Action
CreateAction(action) == [enum |-> action]

\* a slip: the actions are mapped in reverse order
CreateActionsReversed(actions) ==
    [k \in 1..Len(actions) |-> CreateAction(actions[Len(actions) + 1 - k])]

\* actions.map((action) => createAction(action))
CreateActions(actions) == [k \in 1..Len(actions) |-> CreateAction(actions[k])]

\* account.signedDelegate({actions, blockHeightTtl: 60, receiverId})
SignedDelegate(accountId, t) ==
    [senderId |-> accountId, receiverId |-> t.receiverId,
     actions |-> CreateActions(t.actions), blockHeightTtl |-> BlockHeightTtl]

\* encodeSignedDelegate: the delegate's fields in their canonical order
EncodeSignedDelegate(sd) ==
    <<sd.blockHeightTtl, sd.senderId, sd.receiverId>> \o [k \in 1..Len(sd.actions) |-> sd.actions[k].enum]

\* the request handed to fetch
RelayPost(sd) ==
    [url |-> RelayerUrl, method |-> "POST", mode |-> "cors",
     contentType |-> "application/json", body |-> EncodeSignedDelegate(sd)]

InFlight(call) == {i \in 1..Len(call.st) : call.st[i] \in {"building", "posting"}}

\* a slip: the account resolved for the first transaction is used for the rest
DispatchCached(call, i) ==
    IF i > 1 /\ call.acct[1] # ""
    THEN [call EXCEPT !.pc = "dispatch", !.st[i] = "building",
                      !.acct[i] = call.acct[1], !.builds = @ + 1]
    ELSE IF WalletAccount = <<>>
    THEN Throw([call EXCEPT !.st[i] = "failed"], "TypeError: account is null")
    ELSE [call EXCEPT !.pc = "dispatch", !.st[i] = "building",
                      !.acct[i] = WalletAccount[1].accountId,
                      !.builds = @ + 1]

\* a slip: the delegate is asked for without an account
DispatchNoCheck(call, i) ==
    [call EXCEPT !.pc = "dispatch", !.st[i] = "building", !.acct[i] = WalletGetAccountId]

\* signAndSendTransaction up to its first await, for transaction i of the call:
\* resolves account() and asks it for the signed delegate
Dispatch(call, i) ==
    IF WalletAccount = <<>>
    THEN Throw([call EXCEPT !.st[i] = "failed"], "TypeError: account is null")
    ELSE [call EXCEPT !.pc = "dispatch", !.st[i] = "building",
                      !.acct[i] = WalletAccount[1].accountId,
                      !.builds = @ + 1]

NewTxCall(op, txs) ==
    [IdleCall EXCEPT !.op = op, !.txs = txs,
                     !.st = [i \in 1..Len(txs) |-> "pending"],
                     !.acct = [i \in 1..Len(txs) |-> ""]]

\* signAndSendTransaction(t): called
SignAndSendTransactionCall(c, t) ==
    /\ CanCall(c)
    /\ Begin(c, Dispatch(NewTxCall("signAndSendTransaction", <<t>>), 1))
    /\ UNCHANGED <<setup, walletVars, tt, chainVars>>

\* account.signedDelegate resolves; fetch is called with the encoded delegate
DelegateBuilt(c, i) ==
    /\ calls[c].pc \in {"dispatch", "loop"}
    /\ i \in 1..Len(calls[c].st) /\ calls[c].st[i] = "building"
    /\ calls[c].acct[i] \in keyStore
    /\ calls' = [calls EXCEPT ![c] =
            [@ EXCEPT !.st[i] = "posting",
                      !.posts = Append(@, RelayPost(SignedDelegate(calls[c].acct[i], calls[c].txs[i])))]]
    /\ UNCHANGED <<setup, walletVars, callsLeft, tt, chainVars>>

\* account.signedDelegate rejects (no signing key, or the RPC failed)
DelegateFails(c, i) ==
    /\ calls[c].pc \in {"dispatch", "loop"}
    /\ i \in 1..Len(calls[c].st) /\ calls[c].st[i] = "building"
    /\ calls' = [calls EXCEPT ![c] = Throw([@ EXCEPT !.st[i] = "failed"], "signedDelegate failed")]
    /\ UNCHANGED <<setup, walletVars, callsLeft, tt, chainVars>>

\* a slip: a response the relay rejected the delegate with is thrown
AfterResponseChecks(call, i, response) ==
    IF response = "rejected"
    THEN Throw([call EXCEPT !.st[i] = "failed", !.resp = response], "Relayer rejected the delegate")
    ELSE [call EXCEPT !.st[i] = "relayed", !.resp = response]

\* what signAndSendTransaction does with the relay's response: nothing
AfterResponse(call, i, response) ==
    [call EXCEPT !.st[i] = "relayed", !.resp = response]

\* after transaction i: the single call returns, the batch goes round its loop
AfterTransaction(call) ==
    IF call.pc = "threw" THEN call
    ELSE IF call.op = "signAndSendTransaction" THEN Return(call, <<>>)
    ELSE [call EXCEPT !.pc = "loop"]

\* fetch resolves with a response
PostReturns(c, i, response) ==
    /\ calls[c].pc \in {"dispatch", "loop"}
    /\ i \in 1..Len(calls[c].st) /\ calls[c].st[i] = "posting"
    /\ calls' = [calls EXCEPT ![c] = AfterTransaction(AfterResponse(@, i, response))]
    /\ UNCHANGED <<setup, walletVars, callsLeft, tt, chainVars>>

\* a slip: a failed POST is sent again
PostFailsRetries(c, i) ==
    /\ calls[c].pc \in {"dispatch", "loop"}
    /\ i \in 1..Len(calls[c].st) /\ calls[c].st[i] = "posting"
    /\ calls' = [calls EXCEPT ![c] =
            [@ EXCEPT !.resp = "error",
                      !.posts = Append(@, RelayPost(SignedDelegate(calls[c].acct[i], calls[c].txs[i])))]]
    /\ UNCHANGED <<setup, walletVars, callsLeft, tt, chainVars>>

\* a slip: a failed POST signs the user out
PostFailsSignsOut(c, i) ==
    /\ calls[c].pc \in {"dispatch", "loop"}
    /\ i \in 1..Len(calls[c].st) /\ calls[c].st[i] = "posting"
    /\ calls' = [calls EXCEPT ![c] = Throw([@ EXCEPT !.st[i] = "failed", !.resp = "error"], "TypeError: Failed to fetch")]
    /\ WalletSignOut
    /\ UNCHANGED <<setup, callsLeft, tt, chainVars>>

\* fetch rejects (network failure)
PostFails(c, i) ==
    /\ calls[c].pc \in {"dispatch", "loop"}
    /\ i \in 1..Len(calls[c].st) /\ calls[c].st[i] = "posting"
    /\ calls' = [calls EXCEPT ![c] = Throw([@ EXCEPT !.st[i] = "failed", !.resp = "error"], "TypeError: Failed to fetch")]
    /\ UNCHANGED <<setup, walletVars, callsLeft, tt, chainVars>>

(* ------------------------- signAndSendTransactions -------------------- *)

Pending(call) == {i \in 1..Len(call.st) : call.st[i] = "pending"}

\* a slip: the call is not awaited, the loop goes on while it is in progress
ReadyForNextNoAwait(call) == call.pc \in {"loop", "dispatch"}

\* a slip: the loop catches the failure and goes on
ReadyForNextSwallow(call) == call.pc \in {"loop", "threw"}

\* the loop's await: the next iteration runs once the awaited call has returned
ReadyForNext(call) == call.pc = "loop"

\* one iteration of for (... of transactions): the next transaction's
\* signAndSendTransaction up to its first await, or the end of the loop
LoopStep(call) ==
    IF Pending(call) = {} THEN Return(call, <<>>)
    ELSE Dispatch(call, CHOOSE i \in Pending(call) : \A j \in Pending(call) : i <= j)

\* signAndSendTransactions({transactions}): called
SignAndSendTransactionsCall(c, b) ==
    /\ CanCall(c)
    /\ Begin(c, LoopStep(NewTxCall("signAndSendTransactions", b)))
    /\ UNCHANGED <<setup, walletVars, tt, chainVars>>

\* signAndSendTransactions: the awaited signAndSendTransaction has returned
LoopNext(c) ==
    /\ calls[c].op = "signAndSendTransactions"
    /\ ReadyForNext(calls[c])
    /\ calls' = [calls EXCEPT ![c] = LoopStep(@)]
    /\ UNCHANGED <<setup, walletVars, callsLeft, tt, chainVars>>

(* --------------------------- the ledger (RPC) ------------------------- *)

\* the access key as the ledger holds it for the local key
AccessKeyView(localKey) ==
    [public_key |-> PublicKeyToString(localKey), access_key |-> [nonce |-> chainNonce]]

\* account.accessKeyForTransaction(receiverId, actions, localKey): none when the
\* ledger has no access key matching the local key for this receiver
AccessKeyForTransaction(receiverId, actions, localKey) ==
    IF localKey = <<>> \/ receiverId \notin keyScope THEN <<>>
    ELSE <<AccessKeyView(localKey[1])>>

\* a slip: the block fetched when the provider was set up is kept
ProviderBlockStale == [header |-> [hash |-> 0]]

\* provider.block({finality: "final"})
ProviderBlock == [header |-> [hash |-> finalBlock]]

\* nearAPI.utils.PublicKey.from(str)
PublicKeyFrom(str) ==
    CHOOSE pk \in {KeyPairOf(a) : a \in Accounts} : PublicKeyToString(pk) = str

\* nearAPI.utils.serialize.base_decode(hash)
BaseDecode(hash) == <<hash>>

\* a transaction of the account is executed by the network
NonceAdvances ==
    /\ chainNonce < MaxNonce
    /\ chainNonce' = chainNonce + 1
    /\ UNCHANGED <<setup, walletVars, calls, callsLeft, tt, finalBlock, keyScope>>

\* a further block becomes final
BlockFinalized ==
    /\ finalBlock < MaxBlock
    /\ finalBlock' = finalBlock + 1
    /\ UNCHANGED <<setup, walletVars, calls, callsLeft, tt, chainNonce, keyScope>>

(* --------------------------- transformTransactions -------------------- *)

\* the assembly of one transaction: where it stands (lookup, block, created, failed),
\* the lookups it issued, how its lookup ended (pending, none, found, error), the
\* access key and the transaction it produced, the error it threw
NewItem == [pc |-> "lookup", lookups |-> 1, lookup |-> "pending", accessKey |-> <<>>,
            tx |-> <<>>, error |-> ""]

IdleTT == [pc |-> "idle", txs |-> <<>>, accountId |-> "", localKey |-> <<>>,
           items |-> <<>>, error |-> ""]

\* a slip: the nonce without the index
AssignedNonceNoIndex(accessKey, index) == accessKey.access_key.nonce + 1

\* a slip: the nonce without the + 1
AssignedNonceOffByOne(accessKey, index) == accessKey.access_key.nonce + index

\* the nonce transformTransactions gives the transaction at position index (0-based)
AssignedNonce(accessKey, index) == accessKey.access_key.nonce + index + 1

\* the message of the error thrown when no access key matches
NoKeyMessage(transaction) ==
    "Failed to find matching key for transaction sent to " \o transaction.receiverId

\* nearAPI.transactions.createTransaction(...) as transformTransactions calls it
CreateTransaction(accountId, accessKey, transaction, index, block) ==
    [signerId |-> accountId,
     publicKey |-> PublicKeyFrom(accessKey.public_key),
     receiverId |-> transaction.receiverId,
     nonce |-> AssignedNonce(accessKey, index),
     actions |-> CreateActions(transaction.actions),
     blockHash |-> BaseDecode(block.header.hash)]

RECURSIVE SumLen(_)
SumLen(S) == IF S = {} THEN 0 ELSE LET v == CHOOSE x \in S : TRUE
                                   IN  Len(tt[v].txs) + SumLen(S \ {v})

\* transactions handed to transformTransactions so far
Handed == SumLen(Invocations)

\* transformTransactions(transactions): called; account() is resolved and the
\* signer is asked for the local key
TransformCall(v, b) ==
    /\ tt[v].pc = "idle"
    /\ \A w \in Earlier(v) : tt[w].pc # "idle"
    /\ Len(b) + Handed <= MaxTxs
    /\ tt' = [tt EXCEPT ![v] =
            IF WalletAccount = <<>>
            THEN [IdleTT EXCEPT !.pc = "rejected", !.txs = b, !.error = "TypeError: account is null"]
            ELSE [IdleTT EXCEPT !.pc = "localKey", !.txs = b,
                                !.accountId = WalletAccount[1].accountId]]
    /\ UNCHANGED <<setup, walletVars, calls, callsLeft, chainVars>>

\* Promise.all over no promises resolves, otherwise it stays pending
AllStarted(inv) == IF Len(inv.txs) = 0 THEN [inv EXCEPT !.pc = "resolved"] ELSE inv

\* the local key arrives; transactions.map starts one assembly per transaction,
\* each up to its access-key lookup
TransformMap(v) ==
    /\ tt[v].pc = "localKey"
    /\ tt' = [tt EXCEPT ![v] =
            AllStarted([@ EXCEPT !.pc = "running",
                                 !.localKey = SignerGetPublicKey(tt[v].accountId, NetworkId),
                                 !.items = [i \in 1..Len(tt[v].txs) |-> NewItem]])]
    /\ UNCHANGED <<setup, walletVars, calls, callsLeft, chainVars>>

\* Promise.all rejects with the first rejection
RejectAll(inv, message) ==
    IF inv.pc = "running" THEN [inv EXCEPT !.pc = "rejected", !.error = message] ELSE inv

\* Promise.all resolves once every assembly has produced its transaction
ResolveAll(inv) ==
    IF inv.pc = "running" /\ \A i \in 1..Len(inv.items) : inv.items[i].pc = "created"
    THEN [inv EXCEPT !.pc = "resolved"] ELSE inv

\* a slip: a transaction without a key is dropped and the batch goes on
AfterLookupSkips(inv, i, accessKey) ==
    IF accessKey = <<>>
    THEN [inv EXCEPT !.items[i].pc = "failed", !.items[i].lookup = "none"]
    ELSE [inv EXCEPT !.items[i].pc = "block", !.items[i].lookup = "found",
                     !.items[i].accessKey = accessKey]

\* the assembly of transaction i after its lookup returned accessKey
AfterLookup(inv, i, accessKey) ==
    IF accessKey = <<>>
    THEN RejectAll([inv EXCEPT !.items[i].pc = "failed", !.items[i].lookup = "none",
                               !.items[i].error = NoKeyMessage(inv.txs[i])],
                   NoKeyMessage(inv.txs[i]))
    ELSE [inv EXCEPT !.items[i].pc = "block", !.items[i].lookup = "found",
                     !.items[i].accessKey = accessKey]

\* the access-key lookup of transaction i returns
TransformLookup(v, i) ==
    /\ tt[v].pc \in {"running", "rejected"}
    /\ i \in 1..Len(tt[v].items) /\ tt[v].items[i].pc = "lookup"
    /\ tt' = [tt EXCEPT ![v] =
            AfterLookup(@, i, AccessKeyForTransaction(tt[v].txs[i].receiverId,
                                                      CreateActions(tt[v].txs[i].actions),
                                                      tt[v].localKey))]
    /\ UNCHANGED <<setup, walletVars, calls, callsLeft, chainVars>>

\* the block query of transaction i returns; the transaction is created
TransformBlock(v, i) ==
    /\ tt[v].pc \in {"running", "rejected"}
    /\ i \in 1..Len(tt[v].items) /\ tt[v].items[i].pc = "block"
    /\ tt' = [tt EXCEPT ![v] =
            ResolveAll([@ EXCEPT !.items[i].pc = "created",
                                 !.items[i].tx = <<CreateTransaction(tt[v].accountId,
                                                       tt[v].items[i].accessKey[1],
                                                       tt[v].txs[i], i - 1, ProviderBlock)>>])]
    /\ UNCHANGED <<setup, walletVars, calls, callsLeft, chainVars>>

\* the pending RPC query of transaction i (lookup or block) fails
TransformRpcFails(v, i) ==
    /\ tt[v].pc \in {"running", "rejected"}
    /\ i \in 1..Len(tt[v].items) /\ tt[v].items[i].pc \in {"lookup", "block"}
    /\ tt' = [tt EXCEPT ![v] =
            RejectAll([@ EXCEPT !.items[i].pc = "failed", !.items[i].error = "RPC failed",
                                !.items[i].lookup = IF @ = "pending" THEN "error" ELSE @,
                                !.items[i].accessKey = <<>>],
                      "RPC failed")]
    /\ UNCHANGED <<setup, walletVars, calls, callsLeft, chainVars>>

(* ----------------------------- specifications ------------------------- *)

\* the wallet object after setup: the browser's storage may hold a session and
\* key material of earlier visits
Init ==
    /\ setup = ReadySetup
    /\ authAccountId \in {""} \cup Accounts
    /\ keyStore \in SUBSET Accounts
    /\ calls = [c \in Callers |-> IdleCall]
    /\ callsLeft = MaxCalls
    /\ tt = [v \in Invocations |-> IdleTT]
    /\ chainNonce = 0
    /\ finalBlock = 0
    /\ keyScope = Receivers

Next ==
    \/ \E c \in Callers :
        \/ GetAccountsCall(c)
        \/ GetAccountsReturn(c)
        \/ \E p \in SignInParams : SignInCall(c, p)
        \/ SignInExisting(c)
        \/ \E a \in Accounts : HandshakeSucceeds(c, a)
        \/ HandshakeAbandoned(c)
        \/ HandshakeFails(c)
        \/ SignInReturn(c)
        \/ SignOut(c)
        \/ VerifyOwner(c)
        \/ \E t \in Transactions : SignAndSendTransactionCall(c, t)
        \/ \E b \in Batches : SignAndSendTransactionsCall(c, b)
        \/ LoopNext(c)
        \/ \E i \in 1..MaxBatch :
            \/ DelegateBuilt(c, i)
            \/ DelegateFails(c, i)
            \/ \E r \in {"ok", "rejected"} : PostReturns(c, i, r)
            \/ PostFails(c, i)

\* the public operations of the wallet object, called from independent call sites
Spec == Init /\ [][Next]_vars

\* the assembler's inputs: a session, and a ledger whose access key covers some receivers
InitAssembler ==
    /\ setup = ReadySetup
    /\ authAccountId \in {"", "alice.near"}
    /\ keyStore \in {{}, {"alice.near"}}
    /\ calls = [c \in Callers |-> IdleCall]
    /\ callsLeft = 0
    /\ tt = [v \in Invocations |-> IdleTT]
    /\ chainNonce \in 0..MaxNonce
    /\ finalBlock = 0
    /\ keyScope \in SUBSET Receivers

NextAssembler ==
    \/ NonceAdvances
    \/ BlockFinalized
    \/ \E v \in Invocations :
        \/ \E b \in AssemblerBatches : TransformCall(v, b)
        \/ TransformMap(v)
        \/ \E i \in 1..MaxTxs :
            \/ TransformLookup(v, i)
            \/ TransformBlock(v, i)
            \/ TransformRpcFails(v, i)

\* transformTransactions, invoked independently and concurrently, against a live ledger
SpecAssembler == InitAssembler /\ [][NextAssembler]_vars

\* a fresh browser profile in which the host sets the wallet module up
InitSetup ==
    /\ setup \in {NewSetup(n, w) : n \in Networks, w \in WalletUrls}
    /\ authAccountId = ""
    /\ keyStore = {}
    /\ calls = [c \in Callers |-> IdleCall]
    /\ callsLeft = MaxCalls
    /\ tt = [v \in Invocations |-> IdleTT]
    /\ chainNonce = 0
    /\ finalBlock = 0
    /\ keyScope = Receivers

NextSetup ==
    \/ ModuleFactory
    \/ ModuleInit
    \/ ConnectReturns
    \/ ConnectFails
    \/ Next

\* setupFastAuthWallet(...) handed to the host, then the wallet's public operations
SpecSetup == InitSetup /\ [][NextSetup]_vars

(* --------------------------------- claims ----------------------------- *)

Created(inv) == {i \in 1..Len(inv.items) : inv.items[i].pc = "created"}

\* every lookup of the invocation succeeded and returned the access key with nonce n
AllLookupsReturn(inv, n) ==
    \A i \in 1..Len(inv.items) :
        /\ inv.items[i].lookup = "found"
        /\ inv.items[i].accessKey[1].access_key.nonce = n

\* C1: a batch of N transactions whose lookups all return the same access key
\* with nonce n is assembled into N transactions, in input order, the i-th
\* (0-based) with nonce n + i + 1
C1_BatchNonces ==
    \A v \in Invocations : \A n \in 0..MaxNonce :
        (tt[v].pc = "resolved" /\ AllLookupsReturn(tt[v], n)) =>
            /\ Len(tt[v].items) = Len(tt[v].txs)
            /\ \A i \in 1..Len(tt[v].txs) :
                /\ tt[v].items[i].tx # <<>>
                /\ tt[v].items[i].tx[1].receiverId = tt[v].txs[i].receiverId
                /\ tt[v].items[i].tx[1].nonce = n + (i - 1) + 1

\* a batch of three, base nonce 1, assembled
C1_Witness ==
    \E v \in Invocations :
        /\ tt[v].pc = "resolved" /\ Len(tt[v].txs) = 3
        /\ AllLookupsReturn(tt[v], 1)

Batch(c) == calls[c].op = "signAndSendTransactions"

\* C2: within one batch at most one transaction is in flight, and transaction
\* i+1 is not started before the relay POST of transaction i has returned,
\* whatever other calls run beside it
C2_SequentialDispatch ==
    \A c \in Callers : Batch(c) =>
        /\ Cardinality(InFlight(calls[c])) <= 1
        /\ \A i \in 1..Len(calls[c].st) :
            (i > 1 /\ calls[c].st[i] # "pending") => calls[c].st[i - 1] = "relayed"

\* two batches run side by side, each with a later transaction in flight
C2_Witness ==
    \A c \in Callers :
        /\ Batch(c)
        /\ \E i \in 2..Len(calls[c].st) : i \in InFlight(calls[c])

\* C3: when transaction k of a batch fails, no later transaction is attempted,
\* the earlier ones stay relayed, and the batch call fails
C3_FailureStopsBatch ==
    \A c \in Callers : \A k \in 1..Len(calls[c].st) :
        (Batch(c) /\ calls[c].st[k] = "failed") =>
            /\ calls[c].pc = "threw" /\ calls[c].error # ""
            /\ \A j \in 1..Len(calls[c].st) :
                /\ j > k => (calls[c].st[j] = "pending" /\ calls[c].acct[j] = "")
                /\ j < k => calls[c].st[j] = "relayed"
            /\ Len(calls[c].posts) \in {k - 1, k}
            /\ \A j \in 1..Len(calls[c].posts) :
                calls[c].posts[j].body =
                    EncodeSignedDelegate(SignedDelegate(calls[c].acct[j], calls[c].txs[j]))

\* T1 relayed, T2 failed, T3 never attempted
C3_Witness ==
    \E c \in Callers :
        /\ Batch(c) /\ Len(calls[c].st) = 3
        /\ calls[c].st = <<"relayed", "failed", "pending">>
        /\ Len(calls[c].posts) = 1

\* the step is caller c being handed the value of the getAccounts it awaits
AccountsArrive(c) == calls[c].pc = "accounts" /\ calls'[c].pc # "accounts"

\* the step is a call of operation op by caller c
Calls(c, op) == calls'[c].id # calls[c].id /\ calls'[c].op = op

\* C4: a signIn called while an account is signed in returns the existing
\* account list, never invokes requestSignIn and leaves the session as it is
C4_SignInIdempotent ==
    [][\A c \in Callers :
        /\ (Calls(c, "signIn") /\ WalletIsSignedIn) =>
                /\ calls'[c].hs = 0
                /\ calls'[c].gaAccountId = authAccountId
                /\ UNCHANGED walletVars
        /\ (calls[c].op = "signIn" /\ calls[c].phase = 1 /\ calls[c].gaAccountId # ""
              /\ AccountsArrive(c)) =>
                /\ calls'[c].pc = "returned"
                /\ calls'[c].hs = 0
                /\ Len(calls'[c].result) = 1
                /\ calls'[c].result[1].accountId = calls[c].gaAccountId
                /\ UNCHANGED walletVars]_vars

\* both call sites signed in again on a signed-in session, without a handshake
C4_Witness ==
    /\ WalletIsSignedIn
    /\ \A c \in Callers :
        /\ calls[c].op = "signIn" /\ calls[c].pc = "returned" /\ calls[c].hs = 0
        /\ calls[c].result # <<>>
        /\ calls[c].result[1].accountId = authAccountId

\* C5: signOut with no account signed in does not call the wallet
\* connection's signOut, does not throw and changes neither the session nor
\* the key store; the connection's signOut is called only when signed in
C5_SignOutNoOp ==
    [][\A c \in Callers : Calls(c, "signOut") =>
        /\ calls'[c].pc = "returned" /\ calls'[c].error = ""
        /\ calls'[c].wso => WalletIsSignedIn
        /\ ~WalletIsSignedIn => (~calls'[c].wso /\ UNCHANGED walletVars)]_vars

\* signOut was called on a signed-out session that still has a key stored
C5_Witness ==
    /\ ~WalletIsSignedIn /\ keyStore # {}
    /\ \E c \in Callers :
        calls[c].op = "signOut" /\ calls[c].pc = "returned" /\ ~calls[c].wso

\* C6: getAccounts returns no record without a session, exactly one record
\* {accountId, publicKey} for a signed-in account whose key the signer
\* resolves, and never more than one
C6_GetAccounts ==
    [][\A c \in Callers :
        (calls[c].op = "getAccounts" /\ AccountsArrive(c)) =>
            /\ calls'[c].pc = "returned"
            /\ Len(calls'[c].result) <= 1
            /\ (calls[c].gaAccountId = "" \/ calls[c].gaAccount = <<>>)
                    => calls'[c].result = <<>>
            /\ (calls[c].gaAccountId # "" /\ calls[c].gaAccount # <<>>
                  /\ calls[c].gaAccountId \in keyStore)
                    => calls'[c].result =
                         <<[accountId |-> calls[c].gaAccountId,
                            publicKey |-> "ed25519:" \o calls[c].gaAccountId]>>]_vars

\* getAccounts returned the signed-in account with its public key
C6_Witness ==
    \E c \in Callers :
        /\ calls[c].op = "getAccounts" /\ calls[c].pc = "returned"
        /\ Len(calls[c].result) = 1
        /\ calls[c].result[1].publicKey = "ed25519:" \o calls[c].result[1].accountId

\* the step is getAccounts returning for a signed-in account without a stored key
ReturnsWithoutKey(c) ==
    /\ calls[c].op = "getAccounts" /\ AccountsArrive(c)
    /\ calls[c].gaAccountId # "" /\ calls[c].gaAccount # <<>>
    /\ calls[c].gaAccountId \notin keyStore

\* C7 as stated: getAccounts returns the empty sequence when the signer has no
\* public key for the signed-in account
C7_EmptyWithoutKey ==
    [][\A c \in Callers : ReturnsWithoutKey(c) =>
        (calls'[c].pc = "returned" /\ calls'[c].result = <<>>)]_vars

\* C7 amended: getAccounts then returns, without throwing, one record with the
\* account id and the empty string as public key
C7_RecordWithoutKey ==
    [][\A c \in Callers : ReturnsWithoutKey(c) =>
        /\ calls'[c].pc = "returned" /\ calls'[c].error = ""
        /\ calls'[c].result =
             <<[accountId |-> calls[c].gaAccountId, publicKey |-> ""]>>]_vars

\* getAccounts returned for a signed-in account with no key in the key store
C7_Witness ==
    \E c \in Callers :
        /\ calls[c].op = "getAccounts" /\ calls[c].pc = "returned"
        /\ Len(calls[c].result) = 1 /\ calls[c].result[1].publicKey = ""

\* C8: verifyOwner fails with "Method not supported by FastAuthWallet" in
\* every session state and after any other operations
C8_VerifyOwnerFails ==
    \A c \in Callers : calls[c].op = "verifyOwner" =>
        /\ calls[c].pc = "threw"
        /\ calls[c].error = "Method not supported by FastAuthWallet"

\* verifyOwner failed while the other call site's sign-in handshake is open
C8_Witness ==
    \E c, d \in Callers :
        /\ calls[c].op = "verifyOwner" /\ calls[c].pc = "threw"
        /\ calls[d].op = "signIn" /\ calls[d].pc = "handshake"

\* C9: when the lookup of a transaction returns none, its assembly fails with
\* an error naming its receiverId, no transaction is created for it, the lookup
\* is not repeated, and transformTransactions fails as a whole
C9_NoKeyFails ==
    \A v \in Invocations : \A i \in 1..Len(tt[v].items) :
        tt[v].items[i].lookup = "none" =>
            /\ tt[v].items[i].pc = "failed"
            /\ tt[v].items[i].error =
                 "Failed to find matching key for transaction sent to "
                    \o tt[v].txs[i].receiverId
            /\ tt[v].items[i].tx = <<>>
            /\ tt[v].items[i].lookups = 1
            /\ tt[v].pc = "rejected" /\ tt[v].error # ""

\* the second transaction of a batch found no key after the first was created
C9_Witness ==
    \E v \in Invocations :
        /\ Len(tt[v].items) >= 2
        /\ tt[v].items[1].pc = "created"
        /\ tt[v].items[2].lookup = "none"
        /\ tt[v].localKey # <<>>

\* the transactions assembled so far, each with the nonce its lookup returned
Assembled ==
    UNION {{[v |-> v, i |-> i, tx |-> tt[v].items[i].tx[1],
             known |-> tt[v].items[i].accessKey[1].access_key.nonce] :
                i \in Created(tt[v])} : v \in Invocations}

SameKey(x, y) == x.tx.signerId = y.tx.signerId /\ x.tx.publicKey = y.tx.publicKey

\* C10 as stated: every assembled nonce exceeds the last-known nonce and is
\* unique per account and public key over all assembled transactions, those of
\* concurrent invocations included
C10_UniqueNonces ==
    \A x \in Assembled :
        /\ x.tx.nonce > x.known
        /\ \A y \in Assembled :
            (<<x.v, x.i>> # <<y.v, y.i>> /\ SameKey(x, y)) => x.tx.nonce # y.tx.nonce

\* C10 amended: every assembled nonce exceeds the nonce its own lookup
\* returned, and is unique among the transactions of the same invocation whose
\* lookups returned the same nonce
C10_UniquePerInvocation ==
    \A x \in Assembled :
        /\ x.tx.nonce > x.known
        /\ \A y \in Assembled :
            (x.v = y.v /\ x.i # y.i /\ x.known = y.known /\ SameKey(x, y))
                => x.tx.nonce # y.tx.nonce

\* two invocations assembled transactions, one of them two from the same nonce
C10_Witness ==
    \E x, y, z \in Assembled :
        /\ x.v = y.v /\ x.i # y.i /\ x.known = y.known
        /\ z.v # x.v

TxCall(c) == calls[c].op \in {"signAndSendTransaction", "signAndSendTransactions"}

\* the k-th POST of a call is the POST of its k-th transaction's delegate: built
\* from its actions in order, with blockHeightTtl 60 and its receiverId, sent to
\* the configured relayer URL
DelegatedPost(call, k) ==
    call.posts[k] =
        [url |-> "https://relayer.example", method |-> "POST", mode |-> "cors",
         contentType |-> "application/json",
         body |-> <<60, call.acct[k], call.txs[k].receiverId>> \o call.txs[k].actions]

\* C11: every signAndSendTransaction goes the delegated path, one POST of the
\* encoded delegate (the request's actions in order, blockHeightTtl 60, the
\* request's receiverId) to the relayer URL; no public operation invokes
\* transformTransactions
C11_DelegatedPath ==
    /\ \A v \in Invocations : tt[v].pc = "idle"
    /\ \A c \in Callers :
        /\ ~TxCall(c) => calls[c].posts = <<>>
        /\ TxCall(c) =>
            /\ Len(calls[c].posts) <= Len(calls[c].txs)
            /\ \A k \in 1..Len(calls[c].posts) : DelegatedPost(calls[c], k)
            /\ \A i \in 1..Len(calls[c].st) :
                calls[c].st[i] \in {"posting", "relayed"} => Len(calls[c].posts) >= i
            /\ (calls[c].op = "signAndSendTransaction" /\ calls[c].pc = "returned")
                    => Len(calls[c].posts) = 1

\* a signAndSendTransaction of two actions returned after its one POST
C11_Witness ==
    \E c \in Callers :
        /\ calls[c].op = "signAndSendTransaction" /\ calls[c].pc = "returned"
        /\ Len(calls[c].txs[1].actions) = 2
        /\ Len(calls[c].posts) = 1

TxCallNext(c) == calls'[c].op \in {"signAndSendTransaction", "signAndSendTransactions"}

\* this step runs signAndSendTransaction for transaction i of c's call
Dispatched(c, i) ==
    /\ TxCallNext(c)
    /\ i \in 1..Len(calls'[c].st)
    /\ calls'[c].st[i] # "pending"
    /\ IF calls'[c].id # calls[c].id THEN TRUE
       ELSE i \in 1..Len(calls[c].st) /\ calls[c].st[i] = "pending"

\* C12: signAndSendTransaction never invokes requestSignIn, and run with no
\* account signed in it fails without a POST and without touching the session
C12_NoImplicitSignIn ==
    [][\A c \in Callers :
        /\ TxCallNext(c) => calls'[c].hs = 0 /\ calls'[c].hsArgs = NoParams
        /\ \A i \in 1..MaxBatch :
            (Dispatched(c, i) /\ ~WalletIsSignedIn) =>
                /\ calls'[c].st[i] = "failed" /\ calls'[c].pc = "threw"
                /\ Len(calls'[c].posts) < i
                /\ UNCHANGED walletVars]_vars

\* a signAndSendTransaction made signed out has failed, nothing was posted
C12_Witness ==
    \E c \in Callers :
        /\ calls[c].op = "signAndSendTransaction" /\ calls[c].pc = "threw"
        /\ calls[c].acct = <<"">> /\ calls[c].st = <<"failed">>
        /\ calls[c].posts = <<>> /\ calls[c].hs = 0
        /\ ~WalletIsSignedIn

\* C13: the relay's response is not inspected: a transaction that was posted
\* fails only when fetch itself fails, and a call whose last response was a
\* rejection has not failed on it, so a batch goes on to its next transaction
C13_ResponseIgnored ==
    \A c \in Callers : TxCall(c) =>
        /\ \A i \in 1..Len(calls[c].st) :
            /\ (calls[c].st[i] = "failed" /\ Len(calls[c].posts) >= i) => calls[c].resp = "error"
            /\ (calls[c].st[i] = "relayed" /\ i = Len(calls[c].posts))
                    => calls[c].resp \in {"ok", "rejected"}
        /\ (calls[c].resp = "rejected" /\ calls[c].pc = "threw") =>
                \E i \in 1..Len(calls[c].st) :
                    calls[c].st[i] = "failed" /\ Len(calls[c].posts) < i

\* the relay rejected the first transaction of a batch and the second one has
\* been dispatched
C13_Witness ==
    \E c \in Callers :
        /\ calls[c].op = "signAndSendTransactions"
        /\ Len(calls[c].st) >= 2
        /\ calls[c].st[1] = "relayed" /\ calls[c].st[2] = "building"
        /\ calls[c].resp = "rejected"

Unrecognised(networkId) == networkId \notin {"mainnet", "testnet"}

NothingBegun ==
    /\ setup.metadataUrl = "" /\ setup.paramsUrl = ""
    /\ callsLeft = MaxCalls
    /\ \A c \in Callers : calls[c] = IdleCall
    /\ authAccountId = "" /\ keyStore = {}

\* C14 as stated: for any network id outside {"mainnet", "testnet"} the set-up
\* fails with "Invalid wallet url" before setupWalletState runs
C14_AnyUnrecognisedNetworkFails ==
    Unrecognised(setup.networkId) =>
        /\ setup.pc \in {"start", "threw"}
        /\ setup.pc = "threw" => setup.error = "Invalid wallet url"

\* C14 amended: with no walletUrl configured, a network id outside
\* {"mainnet", "testnet"} makes the set-up fail with "Invalid wallet url" in the
\* module factory, before setupWalletState runs and before any operation or
\* sign-in; with a walletUrl configured the set-up never fails that way
C14_InvalidWalletUrl ==
    /\ (setup.walletUrl = "" /\ Unrecognised(setup.networkId)) =>
        /\ setup.pc \in {"start", "threw"}
        /\ setup.pc = "threw" => setup.error = "Invalid wallet url"
        /\ NothingBegun
    /\ setup.error = "Invalid wallet url" =>
        /\ setup.walletUrl = "" /\ Unrecognised(setup.networkId)
        /\ setup.pc = "threw"
    /\ (setup.walletUrl # "" /\ setup.pc \in {"module", "connecting", "ready"}) =>
        setup.metadataUrl = setup.walletUrl

\* the set-up for "localnet" without a walletUrl has failed
C14_Witness ==
    /\ setup.networkId = "localnet" /\ setup.walletUrl = ""
    /\ setup.pc = "threw" /\ setup.error = "Invalid wallet url"
    /\ NothingBegun

\* this step is the completion of a handshake that c's signIn started
HandshakeCompletes(c) ==
    /\ calls[c].op = "signIn" /\ calls[c].pc = "handshake"
    /\ calls'[c].id = calls[c].id /\ calls'[c].pc # "handshake"

\* C15: the session and the key store change only in a step of signIn's
\* handshake or of signOut; getAccounts, verifyOwner, signAndSendTransaction and
\* signAndSendTransactions leave them as they are, returning or throwing
C15_SessionFrame ==
    [][(walletVars' # walletVars) =>
            \E c \in Callers :
                \/ HandshakeCompletes(c)
                \/ Calls(c, "signOut") /\ calls'[c].wso]_vars

\* a batch failed at its relay while the session it was dispatched under stands
C15_Witness ==
    \E c \in Callers :
        /\ calls[c].op = "signAndSendTransactions" /\ calls[c].pc = "threw"
        /\ calls[c].resp = "error"
        /\ authAccountId \in Accounts /\ authAccountId \in keyStore
        /\ \E i \in 1..Len(calls[c].st) :
            calls[c].st[i] = "failed" /\ calls[c].acct[i] = authAccountId

\* C16: within one batch assembled by transformTransactions the nonces are
\* pairwise distinct and strictly increasing in input order, whatever nonces
\* the lookups of the batch returned
C16_StrictlyIncreasing ==
    \A v \in Invocations :
        \A i, j \in Created(tt[v]) :
            i < j => tt[v].items[i].tx[1].nonce < tt[v].items[j].tx[1].nonce

\* the transactions of a call that signAndSendTransaction was run for
Started(call) == {i \in 1..Len(call.st) : call.st[i] # "pending"}

\* the k-th POST of a call carries its k-th transaction
PostOf(call, k) ==
    /\ call.posts[k].body[3] = call.txs[k].receiverId
    /\ SubSeq(call.posts[k].body, 4, Len(call.posts[k].body)) = call.txs[k].actions

\* C17: a batch never retries: one delegate built and one POST at most per
\* transaction, the POSTs in array order, N POSTs when the batch returns, and
\* when a transaction has failed no more POSTs than its position in the batch
C17_NoRetry ==
    \A c \in Callers : calls[c].op = "signAndSendTransactions" =>
        /\ calls[c].builds <= Cardinality(Started(calls[c]))
        /\ Len(calls[c].posts) <= calls[c].builds
        /\ \A k \in 1..Len(calls[c].posts) : k \in Started(calls[c]) /\ PostOf(calls[c], k)
        /\ \A i \in Started(calls[c]) : \A j \in 1..i : j \in Started(calls[c])
        /\ calls[c].pc = "returned" => Len(calls[c].posts) = Len(calls[c].txs)
        /\ \A k \in 1..Len(calls[c].st) :
            calls[c].st[k] = "failed" =>
                /\ Len(calls[c].posts) <= k
                /\ Started(calls[c]) = 1..k

\* a batch of two or more has returned after one POST for each transaction
C17_Witness ==
    \E c \in Callers :
        /\ calls[c].op = "signAndSendTransactions" /\ calls[c].pc = "returned"
        /\ Len(calls[c].txs) >= 2
        /\ Len(calls[c].posts) = Len(calls[c].txs)
        /\ calls[c].builds = Len(calls[c].txs)

\* this step creates transaction i of invocation v
Creates(v, i) == i \in Created(tt'[v]) /\ i \notin Created(tt[v])

\* C18: a transaction is created when its own block query returns, a query
\* made after its own lookup found a key, and carries the hash of the block
\* that is final then: no hash of an earlier query or call is used again
C18_FreshBlockHash ==
    [][\A v \in Invocations : \A i \in 1..MaxTxs :
        Creates(v, i) =>
            /\ tt[v].items[i].pc = "block"
            /\ tt[v].items[i].lookup = "found"
            /\ tt'[v].items[i].accessKey = tt[v].items[i].accessKey
            /\ tt'[v].items[i].tx[1].blockHash = <<finalBlock>>]_vars

\* two transactions of one batch carry different block hashes
C18_Witness ==
    \E v \in Invocations : \E i, j \in Created(tt[v]) :
        tt[v].items[i].tx[1].blockHash # tt[v].items[j].tx[1].blockHash

\* the account list of a session of account a while the key store is keys
ListOf(a, keys) ==
    IF a = "" THEN <<>>
    ELSE <<[accountId |-> a, publicKey |-> IF a \in keys THEN "ed25519:" \o a ELSE ""]>>

\* C19: a signIn that found no account signed in invokes the handshake once,
\* with its own parameters, and re-derives the account list only when the
\* handshake has completed: it returns the account of the session that exists
\* then, the empty list when there is none
C19_SignInHandshake ==
    [][\A c \in Callers : calls'[c].op = "signIn" =>
        LET old == calls[c]
            new == calls'[c]
            same == new.id = old.id
        IN  /\ new.hs <= 1
            /\ new.pc = "handshake" => (new.hs = 1 /\ new.phase = 1 /\ new.hsArgs = new.params)
            /\ new.phase = 2 => (new.hs = 1 /\ new.hsArgs = new.params)
            /\ (same /\ old.pc # "handshake" /\ new.pc = "handshake") =>
                    (old.gaAccountId = "" /\ old.hs = 0 /\ UNCHANGED walletVars)
            /\ (same /\ old.pc = "handshake" /\ new.pc = "accounts") =>
                    (new.gaAccountId = authAccountId' /\ new.result = <<>>)
            /\ (same /\ old.phase = 2 /\ old.pc = "accounts" /\ new.pc = "returned") =>
                    new.result = ListOf(old.gaAccountId, keyStore)]_vars

\* a signIn made signed out has returned the account its handshake signed in
C19_Witness ==
    \E c \in Callers :
        /\ calls[c].op = "signIn" /\ calls[c].pc = "returned"
        /\ calls[c].hs = 1 /\ calls[c].hsArgs = calls[c].params
        /\ calls[c].result = <<[accountId |-> authAccountId, publicKey |-> "ed25519:" \o authAccountId]>>

\* C20: a batch resolves the active account anew for each transaction when it
\* dispatches it: the transaction gets the account signed in at that moment
\* (none after a signOut), and what was resolved and posted for the earlier
\* transactions stays as it was
C20_AccountPerTransaction ==
    [][\A c \in Callers : \A i \in 1..MaxBatch :
        (calls'[c].op = "signAndSendTransactions" /\ Dispatched(c, i)) =>
            /\ calls'[c].acct[i] = authAccountId
            /\ \A j \in 1..Len(calls'[c].posts) : calls'[c].posts[j].body[2] = calls'[c].acct[j]
            /\ calls'[c].id = calls[c].id =>
                /\ calls'[c].posts = calls[c].posts
                /\ \A j \in 1..(i - 1) :
                    calls'[c].acct[j] = calls[c].acct[j] /\ calls'[c].st[j] = calls[c].st[j]]_vars

\* a signOut came between two transactions of a batch: the first was relayed
\* for the account signed in then, the second found no account
C20_Witness ==
    \E c \in Callers :
        /\ calls[c].op = "signAndSendTransactions"
        /\ Len(calls[c].st) >= 2
        /\ calls[c].st[1] = "relayed" /\ calls[c].acct[1] \in Accounts
        /\ calls[c].st[2] = "failed" /\ calls[c].acct[2] = ""
        /\ Len(calls[c].posts) = 1 /\ calls[c].posts[1].body[2] = calls[c].acct[1]

====
